---- MODULE Spec2Model ----
(***************************************************************************)
(* IsolateJS script execution service (marcgauthier/isolatejs).            *)
(*                                                                         *)
(* The model follows src/ijs_manager.go (ScriptManager: job queue, worker  *)
(* pool, executeScript with its capability strip, running-script registry, *)
(* memory monitor), src/ijs_www.go (the POST /data handler) and            *)
(* src/unnamed/part_000 (handleGraceFullShutdown, restart).  The           *)
(* JavaScript engine (sobek) is an external library: an evaluation is a    *)
(* nondeterministic choice among the outcomes RunString can produce for    *)
(* the script's behaviour and the VM's pending interrupt.                  *)
(***************************************************************************)
EXTENDS Integers, Sequences, FiniteSets, TLC

\* ---------------------------------------------------------------- bounds
NumRequests == 2
WorkerPoolSize == 1
MaxScriptSize == 2

\* ------------------------------------------------------- program constants
Epoch == 1
RestartAfter == 60
StatusOK == 200
StatusBadRequest == 400
StatusMethodNotAllowed == 405
StatusInternalServerError == 500
StatusServiceUnavailable == 503

Requests == 1 .. NumRequests
Workers == 1 .. WorkerPoolSize
NoJob == 0

BodyLens == {MaxScriptSize, MaxScriptSize + 1}
\* what vm.RunString does with the source when it is left alone
Behaviours == {"value", "nan", "getter", "throw", "loop"}
\* readings of time.Now().Unix(): the one that starts an overage (time is
\* counted from it), and the later ones: the same second, 60 s and 61 s later
Times(start) ==
    IF start = 0 THEN {Epoch}
    ELSE {start, start + RestartAfter, start + RestartAfter + 1}

ErrScriptTimeout == "script execution timed out"
ErrScriptTooLarge == "script size exceeds maximum limit"
ErrNoWorkerAvailable == "no worker available to process script"
MsgOnlyPost == "Only POST requests are allowed"
MsgReadFailed == "Failed to read request body"
MsgNotAccepting == "Currently not accepting script, please wait..."
ReasonCancelled == "Script cancelled"
ReasonContext == "canceled by context"
JsException == "js exception"
NoInterrupt == "none"

\* ScriptResult{Result, Error}
NoScript == [len |-> 0, beh |-> "none"]
NoResult == [Result |-> "nil", Error |-> "nil"]
ValueResult == [Result |-> "value", Error |-> "nil"]
\* ScriptResult{Result: value.Export()} of a script such as 0/0: a float64 NaN
NaNResult == [Result |-> "NaN", Error |-> "nil"]
\* fmt.Errorf("script execution failed: %w", err)
FailedResult(detail) == [Result |-> "nil", Error |-> "script execution failed: " \o detail]

\* what the client receives: status line, Content-Type, body (JSON or plain text)
NoResponse == [status |-> 0, ctype |-> "", json |-> FALSE, result |-> "nil", error |-> ""]
TextPlain == "text/plain; charset=utf-8"
AppJson == "application/json"

Min(a, b) == IF a < b THEN a ELSE b


\* restrictedGlobals (lines 30-38), each name as its parts between the dots
restrictedGlobals ==
    << <<"eval">>, <<"process">>, <<"child_process">>, <<"require">>, <<"global">>,
       <<"globalThis">>, <<"window">>, <<"self">>, <<"module">>, <<"exports">>,
       <<"__dirname">>, <<"__filename">>, <<"XMLHttpRequest">>, <<"fetch">>,
       <<"WebSocket">>, <<"Object", "defineProperty">>, <<"Object", "create">>,
       <<"Proxy">>, <<"exec">>, <<"execSync">>, <<"spawn">>, <<"fs">>,
       <<"FileSystem">>, <<"writeFile">>, <<"readFile">>,
       <<"Runtime", "getRuntime">>, <<"setInterval">>, <<"setTimeout">>,
       <<"setImmediate">>, <<"crypto">>, <<"randomBytes">>, <<"document">>,
       <<"alert">>, <<"confirm">>, <<"prompt">> >>

\* the Go string of a name: its parts joined by "."
GoString(name) ==
    IF Len(name) = 1 THEN name[1] ELSE name[1] \o "." \o name[2]

\* no VM (before sobek.New() and after vm = nil)
NoVm == <<>>

\* sobek.New(): the properties of a fresh runtime's global object that the
\* restricted names touch, each with the type of its value
sobekNew ==
    [k \in {"eval", "globalThis", "Object", "Proxy"} |->
        IF k = "globalThis" THEN "object" ELSE "function"]

\* the built-in functions that are properties of the built-in object k
Builtins(k) == IF k = "Object" THEN {"defineProperty", "create"} ELSE {}

\* vm.Set(name, nil): the global object gets the property called name, with
\* the value null; the name is one property key, dots included
VmSet(g, key) ==
    [k \in (DOMAIN g) \cup {key} |-> IF k = key THEN "null" ELSE g[k]]

\* executeScript lines 216-218: vm.Set(global, nil) for each restricted name
RECURSIVE Strip(_, _)
Strip(g, names) ==
    IF names = <<>> THEN g
    ELSE Strip(VmSet(g, GoString(Head(names))), Tail(names))

\* what a script gets when it evaluates the expression name (an identifier, or
\* a member access on an identifier) on a VM whose global object is g
Evaluate(g, name) ==
    IF name[1] \notin DOMAIN g THEN "ReferenceError"
    ELSE IF Len(name) = 1 THEN g[name[1]]
    ELSE IF g[name[1]] = "null" THEN "TypeError"
    ELSE IF name[2] \in Builtins(name[1]) THEN "function"
    ELSE "undefined"

\* executeScript lines 213-218: the global object of the VM an evaluation gets
StrippedVm == Strip(sobekNew, restrictedGlobals)

VARIABLES
    \* --- request handlers (one goroutine per request)
    hpc,            \* handler position: "new", "read", "submit", "wait", "done"
    bodyLen,        \* bytes of r.Body, until the handler has read it
    js,             \* string(body), the job's Script: [len, beh], its length and, while
                    \* vm.RunString runs it, what its evaluation does
    resp,           \* response written: [status, ctype, json, result, error]
    \* --- job queue
    jobQueue,       \* sm.jobQueue: sequence of jobs (a job is named by its request)
    replyChan,      \* job.ResultChan: [buf, closed]
    \* --- workers
    wpc,            \* worker position: "recv", "exec", "build", "lock", "spawn",
                    \* "select", "drain", "release", "reply"
    wjob,           \* job the worker holds
    wres,           \* result the worker holds
    ctxCancelled,   \* the cancelFunc of the ctx of the worker's iteration has been called
    wcause,         \* ctx.Err() when the worker's select took ctx.Done()
    workerSem,      \* tokens held in sm.workerSem
    panics,         \* worker goroutines that panicked and were replaced
    \* --- registry
    scriptCounter,  \* sm.scriptCounter
    runningScripts, \* sm.runningScripts: id -> job
    idOf,           \* id allocated to the job (0: none yet)
    \* --- per job: context, VM, evaluator goroutine, executor's result channel
    interruptVal,   \* vm.interruptVal pending on the job's VM
    task,           \* evaluator goroutine: "none", "running", "sent", "panic", "done"
    resultChan,     \* executeScript's resultChan (capacity 1)
    vmGlobal,       \* global object of the job's VM: property name -> value
    \* --- admission gate, memory monitor, process
    acceptingScript,\* sm.acceptingScript (TRUE is 1)
    wdpc,           \* memoryMonitor position: "sleep", "cancel", "enforce", "reset",
                    \* "shutdown", "exec"
    overLimitStart, \* memoryMonitor's overLimitStart
    serving,        \* the HTTP server's listener is open
    exited,         \* the process has ended (os.Exit, main returned, or a fatal panic)
    crashing,       \* a goroutine's panic has unwound unrecovered: the Go runtime
                    \* is about to end the process
    sdpc,           \* handleGraceFullShutdown position: "wait", "shutdown", "pause"
    \* --- history (observation only, never read by an action)
    events          \* per job: the events that have happened so far

handlerVars == <<hpc, bodyLen, js, resp>>
queueVars == <<jobQueue, replyChan>>
workerVars == <<wpc, wjob, wres, ctxCancelled, wcause, workerSem, panics>>
regVars == <<scriptCounter, runningScripts, idOf>>
jobVars == <<interruptVal, task, resultChan, vmGlobal>>
watchdogVars == <<acceptingScript, wdpc, overLimitStart, serving, exited, crashing, sdpc>>

vars == <<handlerVars, queueVars, workerVars, regVars, jobVars, watchdogVars, events>>

Init ==
    /\ hpc = [r \in Requests |-> "new"]
    /\ bodyLen = [r \in Requests |-> 0]
    /\ js = [r \in Requests |-> NoScript]
    /\ resp = [r \in Requests |-> NoResponse]
    /\ jobQueue = <<>>
    /\ replyChan = [r \in Requests |-> [buf |-> <<>>, closed |-> FALSE]]
    /\ wpc = [w \in Workers |-> "recv"]
    /\ wjob = [w \in Workers |-> NoJob]
    /\ wres = [w \in Workers |-> NoResult]
    /\ wcause = [w \in Workers |-> "nil"]
    /\ workerSem = 0
    /\ panics = 0
    /\ scriptCounter = 0
    /\ runningScripts = <<>>
    /\ idOf = [r \in Requests |-> 0]
    /\ ctxCancelled = [w \in Workers |-> FALSE]
    /\ interruptVal = [r \in Requests |-> NoInterrupt]
    /\ task = [r \in Requests |-> "none"]
    /\ resultChan = [r \in Requests |-> <<>>]
    /\ vmGlobal = [r \in Requests |-> NoVm]
    /\ acceptingScript = TRUE
    /\ wdpc = "sleep"
    /\ overLimitStart = 0
    /\ serving = TRUE
    /\ exited = FALSE
    /\ crashing = FALSE
    /\ sdpc = "wait"
    /\ events = [r \in Requests |-> {}]

Log(r, e) == [events EXCEPT ![r] = @ \cup {e}]

\* ------------------------------------------------------------ HTTP handler

\* http.Error(w, msg, code): plain-text body, status written at once
HttpError(msg, code) ==
    [status |-> code, ctype |-> TextPlain, json |-> FALSE, result |-> "nil", error |-> msg]

\* the status the handler answers with while the gate is closed (line 97)
GateClosedStatus == StatusMethodNotAllowed

\* mutant of handleExecutionError: the switch has only its default case
handleExecutionErrorDefault(err) == StatusInternalServerError

\* handleExecutionError: the status for an error of ExecuteScriptWithTimeout
handleExecutionError(err) ==
    IF err = ErrScriptTooLarge THEN StatusBadRequest
    ELSE IF err = ErrNoWorkerAvailable THEN StatusServiceUnavailable
    ELSE StatusInternalServerError

\* json.NewEncoder(w).Encode(response): encoding/json marshals into its own
\* buffer first and returns an error, with nothing written, for a value it does
\* not support (NaN, an infinity, a function, a cycle)
JsonEncodes(result) == result # "NaN"

\* handler lines 105-121: the response for (result, execErr).  On the error path
\* WriteHeader runs before the Content-Type header is set, so the header is not
\* sent and net/http sniffs the body; on success the header precedes the body.
\* When Encode fails the error is only logged: the handler returns and net/http
\* sends status 200 with the header and an empty body.
ExecResponse(res) ==
    IF res.Error # "nil"
    THEN [status |-> handleExecutionError(res.Error), ctype |-> TextPlain,
          json |-> TRUE, result |-> "nil", error |-> res.Error]
    ELSE IF JsonEncodes(res.Result)
    THEN [status |-> StatusOK, ctype |-> AppJson, json |-> TRUE,
          result |-> res.Result, error |-> ""]
    ELSE [status |-> StatusOK, ctype |-> AppJson, json |-> FALSE,
          result |-> "nil", error |-> ""]

\* io.ReadAll(io.LimitReader(r.Body, maxScriptSize)): at most maxScriptSize bytes
LimitRead(n) == Min(n, MaxScriptSize)

\* mutant of QueueCap: make(chan ScriptJob, workerCount-1)
QueueCapOneLess == WorkerPoolSize - 1

\* capacity of sm.jobQueue and of sm.workerSem (NewScriptManager lines 92-93)
QueueCap == WorkerPoolSize
SemCap == WorkerPoolSize

\* handler lines 71-84: the server has accepted the request and started its
\* handler, which checks the method and goes on to read the body
Accept(r) ==
    /\ ~exited
    /\ serving
    /\ hpc[r] = "new"
    /\ r > 1 => hpc[r - 1] # "new"
    /\ \/ \* r.Method != http.MethodPost
          /\ resp' = [resp EXCEPT ![r] = HttpError(MsgOnlyPost, StatusMethodNotAllowed)]
          /\ hpc' = [hpc EXCEPT ![r] = "done"]
       \/ \* POST: io.ReadAll waits for the body
          /\ hpc' = [hpc EXCEPT ![r] = "read"]
          /\ UNCHANGED resp
    /\ UNCHANGED <<bodyLen, js, queueVars, workerVars, regVars, jobVars, watchdogVars,
                   events>>

\* mutant of ReadBody: the handler does not look at the gate
ReadBodyNoGate(r) ==
    /\ ~exited
    /\ hpc[r] = "read"
    /\ \E n \in BodyLens :
          /\ bodyLen' = [bodyLen EXCEPT ![r] = n]
          /\ js' = [js EXCEPT ![r] = [len |-> LimitRead(n), beh |-> "none"]]
    /\ hpc' = [hpc EXCEPT ![r] = "submit"]
    /\ UNCHANGED <<resp, queueVars, workerVars, regVars, jobVars, watchdogVars, events>>

\* handler lines 87-100, up to the call of ExecuteScriptWithTimeout: the capped
\* body read has returned, the admission check follows.  A body of n bytes has
\* arrived.  The listener may have been closed in the meantime: a running
\* handler goes on.
ReadBody(r) ==
    /\ ~exited
    /\ hpc[r] = "read"
    /\ \/ \* io.ReadAll returned an error
          /\ resp' = [resp EXCEPT ![r] = HttpError(MsgReadFailed, StatusBadRequest)]
          /\ hpc' = [hpc EXCEPT ![r] = "done"]
          /\ UNCHANGED <<bodyLen, js>>
       \/ \* !scriptManager.GetAcceptingScript()
          /\ ~acceptingScript
          /\ resp' = [resp EXCEPT ![r] = HttpError(MsgNotAccepting, GateClosedStatus)]
          /\ hpc' = [hpc EXCEPT ![r] = "done"]
          /\ UNCHANGED <<bodyLen, js>>
       \/ \* the gate is open: go on to ExecuteScriptWithTimeout(string(body))
          /\ acceptingScript
          /\ \E n \in BodyLens :
                /\ bodyLen' = [bodyLen EXCEPT ![r] = n]
                /\ js' = [js EXCEPT ![r] = [len |-> LimitRead(n), beh |-> "none"]]
          /\ hpc' = [hpc EXCEPT ![r] = "submit"]
          /\ UNCHANGED resp
    /\ UNCHANGED <<queueVars, workerVars, regVars, jobVars, watchdogVars, events>>

\* mutant of Submit: the select has no default case, the send waits for room
SubmitBlocking(r) ==
    /\ ~exited
    /\ hpc[r] = "submit"
    /\ Len(jobQueue) < QueueCap
    /\ jobQueue' = Append(jobQueue, r)
    /\ hpc' = [hpc EXCEPT ![r] = "wait"]
    /\ events' = Log(r, "enqueue")
    /\ bodyLen' = [bodyLen EXCEPT ![r] = 0]
    /\ UNCHANGED <<resp, js, replyChan, workerVars, regVars, jobVars, watchdogVars>>

\* ExecuteScriptWithTimeout lines 148-163: size check and non-blocking enqueue
Submit(r) ==
    /\ ~exited
    /\ hpc[r] = "submit"
    /\ IF js[r].len > MaxScriptSize
       THEN /\ resp' = [resp EXCEPT ![r] =
                          ExecResponse([Result |-> "nil", Error |-> ErrScriptTooLarge])]
            /\ hpc' = [hpc EXCEPT ![r] = "done"]
            /\ js' = [js EXCEPT ![r] = NoScript]
            /\ bodyLen' = [bodyLen EXCEPT ![r] = 0]
            /\ UNCHANGED <<jobQueue, events>>
       ELSE IF Len(jobQueue) < QueueCap
       THEN /\ jobQueue' = Append(jobQueue, r)
            /\ hpc' = [hpc EXCEPT ![r] = "wait"]
            /\ events' = Log(r, "enqueue")
            /\ bodyLen' = [bodyLen EXCEPT ![r] = 0]
            /\ UNCHANGED <<resp, js>>
       ELSE /\ resp' = [resp EXCEPT ![r] =
                          ExecResponse([Result |-> "nil", Error |-> ErrNoWorkerAvailable])]
            /\ hpc' = [hpc EXCEPT ![r] = "done"]
            /\ js' = [js EXCEPT ![r] = NoScript]
            /\ bodyLen' = [bodyLen EXCEPT ![r] = 0]
            /\ UNCHANGED <<jobQueue, events>>
    /\ UNCHANGED <<replyChan, workerVars, regVars, jobVars, watchdogVars>>

\* ExecuteScriptWithTimeout lines 165-169 and the handler's response
Respond(r) ==
    /\ ~exited
    /\ hpc[r] = "wait"
    /\ replyChan[r].buf # <<>>
    /\ resp' = [resp EXCEPT ![r] = ExecResponse(Head(replyChan[r].buf))]
    /\ replyChan' = [replyChan EXCEPT ![r].buf = Tail(@)]
    /\ hpc' = [hpc EXCEPT ![r] = "done"]
    /\ js' = [js EXCEPT ![r] = NoScript]
    /\ UNCHANGED <<bodyLen, jobQueue, workerVars, regVars, jobVars, watchdogVars, events>>

\* ------------------------------------------------------------------ registry

\* sm.runningScripts[id] = RunningScriptInfo{...}
MapPut(m, id, r) == [i \in (DOMAIN m) \cup {id} |-> IF i = id THEN r ELSE m[i]]
\* delete(sm.runningScripts, id)
MapDelete(m, id) == [i \in (DOMAIN m) \ {id} |-> m[i]]

\* jobs that have an entry in the registry
Tracked == {runningScripts[i] : i \in DOMAIN runningScripts}

\* mutant of NextId: the counter is read but never advanced
NextIdStuck(c) == c + 1 - c

\* atomic.AddUint64(&sm.scriptCounter, 1): the id of the next script
NextId(c) == c + 1

\* vm.Interrupt(v): the value pending on the job's VM afterwards.  The last
\* Interrupt before the engine looks wins; once RunString has returned the VM is
\* never run again and the value is never read.
VmInterrupt(r, v) ==
    IF task[r] \in {"sent", "panic", "done"} THEN interruptVal[r] ELSE v

\* mutant of CancelledRegistry: the loop has no delete
CancelledRegistryKept(m) == m

\* the registry cancelAllScripts leaves behind
CancelledRegistry(m) == <<>>

\* cancelAllScripts under the lock: for every entry Interrupt("Script cancelled"),
\* cancelFunc(), delete
CancelAll ==
    /\ interruptVal' = [r \in Requests |->
                          IF r \in Tracked THEN VmInterrupt(r, ReasonCancelled)
                          ELSE interruptVal[r]]
    /\ ctxCancelled' = [w \in Workers |-> ctxCancelled[w] \/ wjob[w] \in Tracked]
    /\ runningScripts' = CancelledRegistry(runningScripts)

\* -------------------------------------------------------------------- worker

\* worker lines 129-130: receive a job from sm.jobQueue, build its deadline context
WReceive(w) ==
    /\ ~exited
    /\ wpc[w] = "recv"
    /\ jobQueue # <<>>
    /\ wjob' = [wjob EXCEPT ![w] = Head(jobQueue)]
    /\ jobQueue' = Tail(jobQueue)
    /\ ctxCancelled' = [ctxCancelled EXCEPT ![w] = FALSE]
    /\ wpc' = [wpc EXCEPT ![w] = "exec"]
    /\ events' = Log(Head(jobQueue), "receive")
    /\ UNCHANGED <<handlerVars, replyChan, wres, wcause, workerSem, panics, regVars,
                   jobVars, watchdogVars>>

\* worker line 131: send a token on sm.workerSem; the send waits while the
\* channel is full
WAcquire(w) ==
    /\ ~exited
    /\ wpc[w] = "exec"
    /\ workerSem < SemCap
    /\ workerSem' = workerSem + 1
    /\ wpc' = [wpc EXCEPT ![w] = "build"]
    /\ UNCHANGED <<handlerVars, queueVars, wjob, wres, ctxCancelled, wcause, panics,
                   regVars, jobVars, watchdogVars, events>>

\* executeScript lines 213-221: build the VM, strip the restricted globals,
\* allocate the id with an atomic add
WBuild(w) ==
    /\ ~exited
    /\ wpc[w] = "build"
    /\ scriptCounter' = NextId(scriptCounter)
    /\ idOf' = [idOf EXCEPT ![wjob[w]] = NextId(scriptCounter)]
    /\ vmGlobal' = [vmGlobal EXCEPT ![wjob[w]] = StrippedVm]
    /\ wpc' = [wpc EXCEPT ![w] = "lock"]
    /\ UNCHANGED <<handlerVars, queueVars, wjob, wres, ctxCancelled, wcause,
                   workerSem, panics, runningScripts, interruptVal, task,
                   resultChan, watchdogVars, events>>

\* executeScript lines 224-230: under sm.Lock(), store the entry of the script
WRegister(w) ==
    /\ ~exited
    /\ wpc[w] = "lock"
    /\ runningScripts' = MapPut(runningScripts, idOf[wjob[w]], wjob[w])
    /\ wpc' = [wpc EXCEPT ![w] = "spawn"]
    /\ events' = Log(wjob[w], "register")
    /\ UNCHANGED <<handlerVars, queueVars, wjob, wres, ctxCancelled, wcause,
                   workerSem, panics, scriptCounter, idOf, jobVars, watchdogVars>>

\* executeScript lines 232-254: make resultChan and start the evaluator
\* goroutine, which calls vm.RunString(js); what the engine does with the
\* script is b
WSpawn(w) ==
    /\ ~exited
    /\ wpc[w] = "spawn"
    /\ \E b \in Behaviours : js' = [js EXCEPT ![wjob[w]].beh = b]
    /\ task' = [task EXCEPT ![wjob[w]] = "running"]
    /\ wpc' = [wpc EXCEPT ![w] = "select"]
    /\ events' = Log(wjob[w], "evaluate.start")
    /\ UNCHANGED <<hpc, bodyLen, resp, queueVars, wjob, wres, ctxCancelled, wcause,
                   workerSem, panics, regVars, interruptVal, resultChan, vmGlobal,
                   watchdogVars>>

\* mutant of WSelectResult: the select has a default case and returns the zero
\* ScriptResult when no result is ready yet
WSelectResultDefault(w) ==
    /\ ~exited
    /\ wpc[w] = "select"
    /\ IF resultChan[wjob[w]] # <<>>
       THEN /\ wres' = [wres EXCEPT ![w] = Head(resultChan[wjob[w]])]
            /\ resultChan' = [resultChan EXCEPT ![wjob[w]] = Tail(@)]
       ELSE /\ wres' = [wres EXCEPT ![w] = NoResult]
            /\ UNCHANGED resultChan
    /\ wpc' = [wpc EXCEPT ![w] = "release"]
    /\ UNCHANGED <<handlerVars, queueVars, wjob, ctxCancelled, wcause, workerSem,
                   panics, regVars, interruptVal, task, vmGlobal, watchdogVars,
                   events>>

\* executeScript lines 256-258: the select takes the evaluator's result
WSelectResult(w) ==
    /\ ~exited
    /\ wpc[w] = "select"
    /\ resultChan[wjob[w]] # <<>>
    /\ wres' = [wres EXCEPT ![w] = Head(resultChan[wjob[w]])]
    /\ resultChan' = [resultChan EXCEPT ![wjob[w]] = Tail(@)]
    /\ wpc' = [wpc EXCEPT ![w] = "release"]
    /\ UNCHANGED <<handlerVars, queueVars, wjob, ctxCancelled, wcause, workerSem,
                   panics, regVars, interruptVal, task, vmGlobal, watchdogVars,
                   events>>

\* ctx.Err() once ctx.Done() is closed: the deadline of context.WithTimeout has
\* passed, or cancelFunc was called first
DoneCauses(w) == IF ctxCancelled[w] THEN {"canceled", "deadline"} ELSE {"deadline"}

\* the values the executor's read of vm can yield at line 262.  The evaluator's
\* deferred function writes vm = nil (line 240) without synchronisation: once it
\* has run, the read is a data race and yields nil or the old pointer.
VmReads(r) == IF task[r] = "done" THEN {"nil", "vm"} ELSE {"vm"}

\* mutant of WSelectDone: after the interrupt the executor returns a timeout
\* result at once instead of waiting for the evaluator
WSelectDoneNoWait(w) ==
    /\ ~exited
    /\ wpc[w] = "select"
    /\ \E cause \in DoneCauses(w) : wcause' = [wcause EXCEPT ![w] = cause]
    /\ interruptVal' = [interruptVal EXCEPT ![wjob[w]] =
                          VmInterrupt(wjob[w], ReasonContext)]
    /\ wres' = [wres EXCEPT ![w] = [Result |-> "nil", Error |-> ErrScriptTimeout]]
    /\ wpc' = [wpc EXCEPT ![w] = "release"]
    /\ UNCHANGED <<handlerVars, queueVars, wjob, ctxCancelled, workerSem, panics,
                   regVars, task, resultChan, vmGlobal, watchdogVars, events>>

\* executeScript lines 259-262: the select takes ctx.Done() and interrupts the VM
WSelectDone(w) ==
    /\ ~exited
    /\ wpc[w] = "select"
    /\ \E cause \in DoneCauses(w), v \in VmReads(wjob[w]) :
          IF v = "nil"
          THEN \* vm.Interrupt on a nil *Runtime panics; worker lines 121-127
               \* recover, log and start a replacement worker.  The job's
               \* ResultChan is never written and the token is not released.
               /\ wpc' = [wpc EXCEPT ![w] = "recv"]
               /\ wjob' = [wjob EXCEPT ![w] = NoJob]
               /\ panics' = panics + 1
               /\ UNCHANGED <<interruptVal, wcause>>
          ELSE /\ interruptVal' = [interruptVal EXCEPT ![wjob[w]] =
                                     VmInterrupt(wjob[w], ReasonContext)]
               /\ wcause' = [wcause EXCEPT ![w] = cause]
               /\ wpc' = [wpc EXCEPT ![w] = "drain"]
               /\ UNCHANGED <<wjob, panics>>
    /\ UNCHANGED <<handlerVars, queueVars, wres, ctxCancelled, workerSem, regVars,
                   task, resultChan, vmGlobal, watchdogVars, events>>

\* what executeScript returns on the ctx.Done() branch: the result received from
\* the evaluator (line 263), whatever closed the context
DeadlineResult(res, cause) == res

\* mutant of WDrain: after the interrupt the executor returns without
\* receiving the evaluator's result
WDrainNoWait(w) ==
    /\ ~exited
    /\ wpc[w] = "drain"
    /\ wres' = [wres EXCEPT ![w] = NoResult]
    /\ wpc' = [wpc EXCEPT ![w] = "release"]
    /\ UNCHANGED <<handlerVars, queueVars, wjob, ctxCancelled, wcause, workerSem,
                   panics, regVars, jobVars, watchdogVars, events>>

\* executeScript line 263: after the interrupt, wait for the evaluator's result
WDrain(w) ==
    /\ ~exited
    /\ wpc[w] = "drain"
    /\ resultChan[wjob[w]] # <<>>
    /\ wres' = [wres EXCEPT ![w] = DeadlineResult(Head(resultChan[wjob[w]]), wcause[w])]
    /\ resultChan' = [resultChan EXCEPT ![wjob[w]] = Tail(@)]
    /\ wpc' = [wpc EXCEPT ![w] = "release"]
    /\ UNCHANGED <<handlerVars, queueVars, wjob, ctxCancelled, wcause, workerSem,
                   panics, regVars, interruptVal, task, vmGlobal, watchdogVars,
                   events>>

\* worker line 135: executeScript has returned; receive the token back from
\* sm.workerSem
WRelease(w) ==
    /\ ~exited
    /\ wpc[w] = "release"
    /\ workerSem' = workerSem - 1
    /\ wpc' = [wpc EXCEPT ![w] = "reply"]
    /\ UNCHANGED <<handlerVars, queueVars, wjob, wres, ctxCancelled, wcause, panics,
                   regVars, jobVars, watchdogVars, events>>

\* worker lines 137-138: send the result on job.ResultChan (capacity 1, one
\* sender) and close it; the iteration ends and its ctx goes out of scope
WReply(w) ==
    /\ ~exited
    /\ wpc[w] = "reply"
    /\ replyChan' = [replyChan EXCEPT ![wjob[w]] =
                       [buf |-> Append(@.buf, wres[w]), closed |-> TRUE]]
    /\ wpc' = [wpc EXCEPT ![w] = "recv"]
    /\ wjob' = [wjob EXCEPT ![w] = NoJob]
    /\ wres' = [wres EXCEPT ![w] = NoResult]
    /\ wcause' = [wcause EXCEPT ![w] = "nil"]
    /\ ctxCancelled' = [ctxCancelled EXCEPT ![w] = FALSE]
    /\ events' = Log(wjob[w], "reply")
    /\ UNCHANGED <<handlerVars, jobQueue, workerSem, panics, regVars, jobVars,
                   watchdogVars>>

\* ----------------------------------------------------------------- evaluator

\* vm.RunString(js): what the evaluator can send at this moment, given the
\* script's behaviour and the interrupt pending on the VM.  A "loop" script ends
\* only when interrupted; a "getter" script returns a value that cannot be
\* exported (ExportPanics), so it has a result to send only when interrupted.
RunOutcomes(beh, intr) ==
    (IF beh = "value" THEN {ValueResult} ELSE {})
    \cup (IF beh = "nan" THEN {NaNResult} ELSE {})
    \cup (IF beh = "throw" THEN {FailedResult(JsException)} ELSE {})
    \cup (IF intr # NoInterrupt THEN {FailedResult(intr)} ELSE {})

\* evaluator goroutine lines 243-253: RunString returns, the result is sent.
\* The run is over: an interrupt still pending on the VM is never observed.
EvalFinish(r) ==
    /\ ~exited
    /\ task[r] = "running"
    /\ Len(resultChan[r]) < 1
    /\ \E res \in RunOutcomes(js[r].beh, interruptVal[r]) :
          resultChan' = [resultChan EXCEPT ![r] = Append(@, res)]
    /\ interruptVal' = [interruptVal EXCEPT ![r] = NoInterrupt]
    /\ js' = [js EXCEPT ![r].beh = "none"]
    /\ task' = [task EXCEPT ![r] = "sent"]
    /\ events' = Log(r, "result")
    /\ UNCHANGED <<hpc, bodyLen, resp, queueVars, workerVars, regVars, vmGlobal,
                   watchdogVars>>

\* value.Export() of the completion value: for an object whose export runs
\* script code that throws (a throwing getter) Export panics with the exception
ExportPanics(beh) == beh = "getter"

\* evaluator goroutine lines 243 and 253: RunString returns a value and
\* value.Export() panics.  Nothing is sent on resultChan.  The run is over: an
\* interrupt still pending on the VM is never observed.
EvalExportPanic(r) ==
    /\ ~exited
    /\ task[r] = "running"
    /\ ExportPanics(js[r].beh)
    /\ interruptVal' = [interruptVal EXCEPT ![r] = NoInterrupt]
    /\ js' = [js EXCEPT ![r].beh = "none"]
    /\ task' = [task EXCEPT ![r] = "panic"]
    /\ events' = Log(r, "result")
    /\ UNCHANGED <<hpc, bodyLen, resp, queueVars, workerVars, regVars, resultChan,
                   vmGlobal, watchdogVars>>

\* evaluator goroutine lines 235-241 while panicking: the deferred function
\* removes the entry and sets vm = nil.  The goroutine has no recover, so the
\* panic is now fatal; the other goroutines go on until the runtime has ended
\* the process.
EvalUnwind(r) ==
    /\ ~exited
    /\ task[r] = "panic"
    /\ runningScripts' = MapDelete(runningScripts, idOf[r])
    /\ task' = [task EXCEPT ![r] = "done"]
    /\ events' = Log(r, "unregister")
    /\ idOf' = [idOf EXCEPT ![r] = 0]
    /\ vmGlobal' = [vmGlobal EXCEPT ![r] = NoVm]
    /\ crashing' = TRUE
    /\ UNCHANGED <<handlerVars, queueVars, workerVars, scriptCounter,
                   interruptVal, resultChan, acceptingScript, wdpc, overLimitStart,
                   serving, exited, sdpc>>

\* the Go runtime after an unrecovered panic: it prints the panic and ends the
\* process with all its goroutines
EvalCrash ==
    /\ ~exited
    /\ crashing
    /\ exited' = TRUE
    /\ UNCHANGED <<handlerVars, queueVars, workerVars, regVars, jobVars,
                   acceptingScript, wdpc, overLimitStart, serving, crashing, sdpc,
                   events>>

\* mutant of EvalUnregister: the deferred function forgets the delete
EvalUnregisterNoDelete(r) ==
    /\ ~exited
    /\ task[r] = "sent"
    /\ task' = [task EXCEPT ![r] = "done"]
    /\ events' = Log(r, "unregister")
    /\ idOf' = [idOf EXCEPT ![r] = 0]
    /\ vmGlobal' = [vmGlobal EXCEPT ![r] = NoVm]
    /\ UNCHANGED <<handlerVars, queueVars, workerVars, scriptCounter, runningScripts,
                   interruptVal, resultChan, watchdogVars>>

\* evaluator goroutine lines 235-241: the deferred removal from the registry
\* and vm = nil
EvalUnregister(r) ==
    /\ ~exited
    /\ task[r] = "sent"
    /\ runningScripts' = MapDelete(runningScripts, idOf[r])
    /\ task' = [task EXCEPT ![r] = "done"]
    /\ events' = Log(r, "unregister")
    /\ idOf' = [idOf EXCEPT ![r] = 0]
    /\ vmGlobal' = [vmGlobal EXCEPT ![r] = NoVm]
    /\ UNCHANGED <<handlerVars, queueVars, workerVars, scriptCounter,
                   interruptVal, resultChan, watchdogVars>>

\* ------------------------------------------------------------ memory monitor

\* handlers that have started and not yet returned: the connections
\* server.Shutdown waits for
InFlight == {r \in Requests : hpc[r] \in {"read", "submit", "wait"}}

\* enforceMemoryLimit lines 277-284: the value returned for overLimitStart and
\* whether restart is called, for the clock reading t
\* mutant of EnforceStart: the first reading is not returned
EnforceStartKept(start, t) == start

EnforceStart(start, t) == IF start = 0 THEN t ELSE start

\* mutant of EnforceRestarts: the comparison is >= 60
EnforceRestartsAt(start, t) == start # 0 /\ t - start >= RestartAfter

EnforceRestarts(start, t) == start # 0 /\ t - start > RestartAfter

\* memoryMonitor lines 176-183, a sample over the limit: if the gate is open it
\* is closed with an atomic store, and cancelAllScripts is to follow
WdOver ==
    /\ ~exited
    /\ wdpc = "sleep"
    /\ acceptingScript' = FALSE
    /\ wdpc' = IF acceptingScript THEN "cancel" ELSE "enforce"
    /\ UNCHANGED <<handlerVars, queueVars, workerVars, regVars, jobVars,
                   overLimitStart, serving, exited, events, sdpc, crashing>>

\* memoryMonitor line 188: cancelAllScripts has taken sm.Lock() and runs
WdCancel ==
    /\ ~exited
    /\ wdpc = "cancel"
    /\ CancelAll
    /\ wdpc' = "enforce"
    /\ UNCHANGED <<handlerVars, queueVars, wpc, wjob, wres, wcause, workerSem,
                   panics, scriptCounter, idOf, task, resultChan, vmGlobal,
                   acceptingScript, overLimitStart, serving, exited, events, sdpc, crashing>>

\* memoryMonitor line 190 with t the clock reading of enforceMemoryLimit: it
\* either returns the value for overLimitStart or calls restart, whose
\* server.Shutdown closes the listener
WdEnforce(t) ==
    /\ ~exited
    /\ wdpc = "enforce"
    /\ overLimitStart' = EnforceStart(overLimitStart, t)
    /\ IF EnforceRestarts(overLimitStart, t)
       THEN wdpc' = "shutdown" /\ serving' = FALSE
       ELSE wdpc' = "sleep" /\ UNCHANGED serving
    /\ UNCHANGED <<handlerVars, queueVars, workerVars, regVars, jobVars,
                   acceptingScript, exited, events, sdpc, crashing>>

\* the step of enforceMemoryLimit, whatever the clock reads
WdEnforceTick == \E t \in Times(overLimitStart) : WdEnforce(t)

\* mutant of WdUnder: resetMemoryUsage opens the gate without the settling sleep
WdUnderNoSettle ==
    /\ ~exited
    /\ wdpc = "sleep"
    /\ overLimitStart # 0
    /\ acceptingScript' = TRUE
    /\ overLimitStart' = 0
    /\ UNCHANGED <<handlerVars, queueVars, workerVars, regVars, jobVars,
                   wdpc, serving, exited, events, sdpc, crashing>>

\* memoryMonitor lines 191-192, a sample at or under the limit with
\* overLimitStart set: resetMemoryUsage is entered
WdUnder ==
    /\ ~exited
    /\ wdpc = "sleep"
    /\ overLimitStart # 0
    /\ wdpc' = "reset"
    /\ UNCHANGED <<handlerVars, queueVars, workerVars, regVars, jobVars,
                   acceptingScript, overLimitStart, serving, exited, events, sdpc, crashing>>

\* mutant of WdReset: the monitor opens the gate and keeps overLimitStart
WdResetKeepsStart ==
    /\ ~exited
    /\ wdpc = "reset"
    /\ acceptingScript' = TRUE
    /\ wdpc' = "sleep"
    /\ UNCHANGED <<handlerVars, queueVars, workerVars, regVars, jobVars,
                   overLimitStart, serving, exited, events, sdpc, crashing>>

\* resetMemoryUsage and memoryMonitor line 193: after the settling sleep the gate
\* is opened and overLimitStart cleared
WdReset ==
    /\ ~exited
    /\ wdpc = "reset"
    /\ acceptingScript' = TRUE
    /\ overLimitStart' = 0
    /\ wdpc' = "sleep"
    /\ UNCHANGED <<handlerVars, queueVars, workerVars, regVars, jobVars, serving,
                   exited, events, sdpc, crashing>>

\* restart lines 68-80: Shutdown returned nil (no handler in flight any more);
\* scriptManager.Stop() cancels all scripts
WdShutdownOk ==
    /\ ~exited
    /\ wdpc = "shutdown"
    /\ InFlight = {}
    /\ CancelAll
    /\ wdpc' = "exec"
    /\ UNCHANGED <<handlerVars, queueVars, wpc, wjob, wres, wcause, workerSem,
                   panics, scriptCounter, idOf, task, resultChan, vmGlobal,
                   acceptingScript,
                   overLimitStart, serving, exited, events, sdpc, crashing>>

\* restart lines 68-70: Shutdown's 5 s context expired with handlers still in
\* flight; restart returns the error and the monitor goes on
WdShutdownErr ==
    /\ ~exited
    /\ wdpc = "shutdown"
    /\ InFlight # {}
    /\ wdpc' = "sleep"
    /\ UNCHANGED <<handlerVars, queueVars, workerVars, regVars, jobVars,
                   acceptingScript, overLimitStart, serving, exited, events, sdpc, crashing>>

\* restart lines 83-106: start the new process and exit, or return the error of
\* os.Executable / cmd.Start
WdExec ==
    /\ ~exited
    /\ wdpc = "exec"
    /\ \E started \in BOOLEAN :
          /\ exited' = started
          /\ wdpc' = IF started THEN "exec" ELSE "sleep"
    /\ UNCHANGED <<handlerVars, queueVars, workerVars, regVars, jobVars,
                   acceptingScript, overLimitStart, serving, events, sdpc, crashing>>

\* -------------------------------------------------------- graceful shutdown

\* handleGraceFullShutdown lines 24-32: a SIGINT or SIGTERM arrives and
\* server.Shutdown is called, which closes the listener
SdSignal ==
    /\ ~exited
    /\ sdpc = "wait"
    /\ sdpc' = "shutdown"
    /\ serving' = FALSE
    /\ UNCHANGED <<handlerVars, queueVars, workerVars, regVars, jobVars,
                   acceptingScript, wdpc, overLimitStart, exited, events, crashing>>

\* handleGraceFullShutdown lines 32-38: Shutdown returned nil (no handler in
\* flight any more); cancelAllScripts runs
SdShutdownOk ==
    /\ ~exited
    /\ sdpc = "shutdown"
    /\ InFlight = {}
    /\ CancelAll
    /\ sdpc' = "pause"
    /\ UNCHANGED <<handlerVars, queueVars, wpc, wjob, wres, wcause, workerSem,
                   panics, scriptCounter, idOf, task, resultChan, vmGlobal,
                   acceptingScript, wdpc, overLimitStart, serving, exited, events, crashing>>

\* mutant of SdShutdownErr: on a Shutdown error cancelAllScripts is skipped
SdShutdownErrNoCancel ==
    /\ ~exited
    /\ sdpc = "shutdown"
    /\ InFlight # {}
    /\ sdpc' = "pause"
    /\ UNCHANGED <<handlerVars, queueVars, workerVars, regVars, jobVars,
                   acceptingScript, wdpc, overLimitStart, serving, exited, events, crashing>>

\* handleGraceFullShutdown lines 32-38: Shutdown's context (ShutdownTimeLimit)
\* expired with handlers still in flight; the error is logged and
\* cancelAllScripts runs
SdShutdownErr ==
    /\ ~exited
    /\ sdpc = "shutdown"
    /\ InFlight # {}
    /\ CancelAll
    /\ sdpc' = "pause"
    /\ UNCHANGED <<handlerVars, queueVars, wpc, wjob, wres, wcause, workerSem,
                   panics, scriptCounter, idOf, task, resultChan, vmGlobal,
                   acceptingScript, wdpc, overLimitStart, serving, exited, events, crashing>>

\* handleGraceFullShutdown lines 41-42 and main line 47: the pause is over,
\* main returns and the process ends
SdExit ==
    /\ ~exited
    /\ sdpc = "pause"
    /\ exited' = TRUE
    /\ UNCHANGED <<handlerVars, queueVars, workerVars, regVars, jobVars,
                   acceptingScript, wdpc, overLimitStart, serving, sdpc, events, crashing>>

\* ------------------------------------------------------------ specification

Next ==
    \/ \E r \in Requests : Accept(r)
    \/ \E r \in Requests : ReadBody(r)
    \/ \E r \in Requests : Submit(r)
    \/ \E r \in Requests : Respond(r)
    \/ \E w \in Workers : WReceive(w)
    \/ \E w \in Workers : WAcquire(w)
    \/ \E w \in Workers : WBuild(w)
    \/ \E w \in Workers : WRegister(w)
    \/ \E w \in Workers : WSpawn(w)
    \/ \E w \in Workers : WSelectResult(w)
    \/ \E w \in Workers : WSelectDone(w)
    \/ \E w \in Workers : WDrain(w)
    \/ \E w \in Workers : WRelease(w)
    \/ \E w \in Workers : WReply(w)
    \/ \E r \in Requests : EvalFinish(r)
    \/ \E r \in Requests : EvalExportPanic(r)
    \/ \E r \in Requests : EvalUnwind(r)
    \/ EvalCrash
    \/ \E r \in Requests : EvalUnregister(r)
    \/ WdOver
    \/ WdCancel
    \/ WdEnforceTick
    \/ WdUnder
    \/ WdReset
    \/ WdShutdownOk
    \/ WdShutdownErr
    \/ WdExec
    \/ SdSignal
    \/ SdShutdownOk
    \/ SdShutdownErr
    \/ SdExit

Spec == Init /\ [][Next]_vars

\* a step of a handler inside ExecuteScriptWithTimeout, of a worker or of an
\* evaluator
GoroutineStep ==
    \/ \E r \in Requests :
          \/ Submit(r) \/ Respond(r) \/ EvalFinish(r) \/ EvalUnregister(r)
          \/ EvalExportPanic(r) \/ EvalUnwind(r)
    \/ EvalCrash
    \/ \E w \in Workers :
          \/ WReceive(w) \/ WAcquire(w) \/ WBuild(w) \/ WRegister(w)
          \/ WSpawn(w) \/ WSelectResult(w) \/ WSelectDone(w) \/ WDrain(w)
          \/ WRelease(w) \/ WReply(w)

\* Go's scheduler runs a runnable goroutine and a context's timer fires, so the
\* handlers, workers and evaluators do not all stand still while one of them
\* can take a step.  The memory monitor's steps depend on heap samples, the
\* shutdown on a signal; they carry no fairness.
FairSpec == Spec /\ WF_vars(GoroutineStep)

\* ------------------------------------------------------------------- claims

\* what an evaluation hands back when it ends by itself, not interrupted
OwnOutcomes == UNION {RunOutcomes(b, NoInterrupt) : b \in Behaviours}

\* C1: a script that does not complete within script_timeout is reported as
\* `timeout`: when the worker's select took the deadline, the result executeScript
\* hands back for an evaluation that did not end by itself carries
\* ErrScriptTimeout, not the engine's post-interrupt failure.
C1_DeadlineReturnsTimeout ==
    \A w \in Workers :
        (wpc[w] = "release" /\ wcause[w] = "deadline" /\ wres[w] \notin OwnOutcomes)
            => wres[w].Error = ErrScriptTimeout

\* C2: an evaluation whose executor was woken by cancel_all finishes with
\* `interrupted_by_memory` ("Script cancelled") or with what the script produced
\* by itself before it observed the interrupt, and with no other error kind.
C2_CancelledEndsInterrupted ==
    \A w \in Workers :
        (wpc[w] = "release" /\ wcause[w] = "canceled")
            => wres[w] \in {FailedResult(ReasonCancelled)} \cup OwnOutcomes

\* C3: a POST refused because the admission gate is closed is answered with
\* status 503, and no job was enqueued for it.
C3_GateClosedAnswers503 ==
    \A r \in Requests :
        resp[r].error = MsgNotAccepting
            => resp[r].status = StatusServiceUnavailable /\ "enqueue" \notin events[r]

\* C4: a request whose body is longer than max_script_size leaves
\* ExecuteScriptWithTimeout with script_too_large and status 400; it is never
\* enqueued, so no VM is built for it.
C4_OversizeBodyRejected ==
    [][\A r \in Requests :
          (bodyLen[r] > MaxScriptSize /\ hpc[r] = "submit" /\ hpc'[r] # "submit")
              => /\ hpc'[r] = "done"
                 /\ resp'[r].status = StatusBadRequest
                 /\ resp'[r].error = ErrScriptTooLarge
                 /\ "enqueue" \notin events'[r]]_vars

\* jobs answered with no_worker_available
Rejected == {r \in Requests : resp[r].error = ErrNoWorkerAvailable}
\* jobs that reached the non-blocking send of ExecuteScriptWithTimeout
Submitted ==
    {r \in Requests : hpc[r] = "wait"}
        \cup {r \in Requests : resp[r].json \/ resp[r].status = StatusOK}

\* C5 (amended): a submission is rejected with no_worker_available (503) exactly
\* when the job queue already holds worker_pool_size jobs at its non-blocking
\* send, and is enqueued otherwise; jobs that workers have already received do
\* not count, so the first worker_pool_size submissions are never rejected and
\* of N+1 concurrent long-running submissions at most one is rejected.
C5_RejectedOnlyWhenQueueFull ==
    /\ [](Cardinality(Rejected) <= NumRequests - WorkerPoolSize)
    /\ [](Cardinality(Rejected) > 0 => Cardinality(Submitted) > WorkerPoolSize)
    /\ [][\A r \in Requests :
            (hpc[r] = "submit" /\ hpc'[r] # "submit")
                => IF Len(jobQueue) >= WorkerPoolSize
                   THEN /\ resp'[r].error = ErrNoWorkerAvailable
                        /\ resp'[r].status = StatusServiceUnavailable
                        /\ jobQueue' = jobQueue
                   ELSE /\ hpc'[r] = "wait"
                        /\ jobQueue' = Append(jobQueue, r)]_vars

\* C5 witness: worker_pool_size + 1 submissions are all accepted at the same
\* time, none rejected: worker_pool_size long-running scripts are being
\* evaluated and another job waits in the queue
C5_AllAccepted ==
    /\ \A r \in Requests : hpc[r] = "wait"
    /\ Cardinality({r \in Requests : task[r] = "running" /\ js[r].beh = "loop"})
          = WorkerPoolSize
    /\ jobQueue # <<>>
    /\ Rejected = {}

\* C5 (as stated): a submission arriving while worker_pool_size long-running
\* scripts are already accepted and unanswered is rejected with
\* no_worker_available.
C5_RejectedWhenPoolBusy ==
    [][\A r \in Requests :
          (/\ hpc[r] = "submit" /\ hpc'[r] # "submit"
           /\ Cardinality({q \in Requests : hpc[q] = "wait" /\ js[q].beh = "loop"})
                  >= WorkerPoolSize)
              => resp'[r].error = ErrNoWorkerAvailable]_vars

\* evaluator goroutines inside vm.RunString / not yet returned
Evaluating == {r \in Requests : task[r] = "running"}
LiveTasks == {r \in Requests : task[r] \in {"running", "sent", "panic"}}

\* C6 (amended): the number of evaluator tasks still evaluating (their result not
\* yet sent) never exceeds worker_pool_size, and each of them belongs to a worker
\* that is inside executeScript waiting for it; a task that has sent its result
\* but not yet finished its deferred unregister may overlap the next evaluation.
C6_EvaluatingBounded ==
    /\ Cardinality(Evaluating) <= WorkerPoolSize
    /\ \A r \in Evaluating : \E w \in Workers : wjob[w] = r /\ wpc[w] \in {"select", "drain"}

\* C6 witness: one task has sent its result and not yet returned while the next
\* one is evaluating
C6_LingeringTask ==
    \E r, q \in Requests : task[r] = "sent" /\ task[q] = "running"

\* C6 (as stated): the number of evaluator tasks that have not yet returned never
\* exceeds worker_pool_size.
C6_LiveTasksBounded == Cardinality(LiveTasks) <= WorkerPoolSize

\* the events that have happened before event e of a job happens, in the code;
\* "result" is vm.RunString handing the evaluator its result or the interrupt
\* (line 243)
EventsBefore(e) ==
    CASE e = "enqueue" -> {}
      [] e = "receive" -> {"enqueue"}
      [] e = "register" -> {"enqueue", "receive"}
      [] e = "evaluate.start" -> {"enqueue", "receive", "register"}
      [] e = "result" -> {"enqueue", "receive", "register", "evaluate.start"}
      [] e = "unregister" -> {"enqueue", "receive", "register", "evaluate.start", "result"}
      [] e = "reply" -> {"enqueue", "receive", "register", "evaluate.start", "result"}

\* C7 (amended): for a single request the events occur in the order enqueue <
\* worker.receive < register < evaluate.start < result, and the result precedes
\* both the evaluator's unregister and the reply on the job's channel; unregister
\* and reply are not ordered with respect to each other.
C7_EventOrder ==
    [][\A r \in Requests : \A e \in events'[r] \ events[r] :
          EventsBefore(e) \subseteq events[r]]_vars

\* C7 witness: a job has been replied to while its registry entry is still there
\* (the evaluator has not yet unregistered)
C7_ReplyBeforeUnregister ==
    \E r \in Requests :
        /\ EventsBefore("reply") \cup {"reply"} \subseteq events[r]
        /\ "unregister" \notin events[r]
        /\ r \in Tracked

\* C7 (as stated): the chain ends with unregister < reply: when the ScriptResult
\* is sent on the job's reply channel the evaluator has unregistered and the
\* job's registry entry is gone.
C7_UnregisterBeforeReply ==
    [][\A r \in Requests :
          ("reply" \in events'[r] \ events[r])
              => "unregister" \in events[r] /\ r \notin Tracked]_vars

\* the job has been registered by its executor and its evaluator has not returned
EvaluationLive(r) ==
    \/ task[r] \in {"running", "sent", "panic"}
    \/ \E w \in Workers : wjob[w] = r /\ wpc[w] = "spawn"

\* a step of cancelAllScripts: from memoryMonitor closing the gate, from Stop,
\* or from handleGraceFullShutdown
CancelAllStep ==
    \/ wdpc = "cancel" /\ wdpc' # "cancel"
    \/ wdpc = "shutdown" /\ wdpc' = "exec"
    \/ sdpc = "shutdown" /\ sdpc' = "pause"

\* C8 (amended): every registry entry belongs to an evaluation that is live (its
\* executor registered it under that id and its evaluator has not returned), so
\* no entry outlives its evaluation; a live evaluation has an entry from its
\* registration until its own unregister or until cancel_all removes it, after
\* which the evaluation may still be unwinding without an entry.
C8_EntriesAreLive ==
    /\ [](\A i \in DOMAIN runningScripts :
              idOf[runningScripts[i]] = i /\ EvaluationLive(runningScripts[i]))
    /\ [][\A r \in Requests :
            /\ (EvaluationLive(r)' /\ ~EvaluationLive(r)) => (r \in Tracked')
            /\ (r \in Tracked /\ r \notin Tracked')
                  => (~EvaluationLive(r)' \/ (CancelAllStep /\ Tracked' = {}))]_vars

\* C8 witness: cancel_all has removed the entry of an evaluation that is still
\* running
C8_UnwindingWithoutEntry ==
    \E r \in Requests : task[r] = "running" /\ r \notin Tracked /\ ~acceptingScript

\* C8 (as stated): the registry holds an entry for a job if and only if its
\* evaluation is live.
C8_EntryIffLive ==
    \A r \in Requests : (r \in Tracked) <=> EvaluationLive(r)

\* no evaluation is in flight
Quiescent == \A r \in Requests : ~EvaluationLive(r)

\* C9: at quiescence the registry is empty; the evaluator of every registered id
\* performs its unregister at most once, and eventually does (unless the process
\* exits first): events are never forgotten, so again and again every id
\* registered so far has been unregistered; the removal leaves every other
\* script's entry in place, also when cancel_all has already removed the id.
C9_RegistryConsistency ==
    /\ [](Quiescent => runningScripts = <<>>)
    /\ [][\A r \in Requests :
            /\ ("unregister" \in events'[r] \ events[r])
                  => /\ Tracked' = Tracked \ {r}
                     /\ \A i \in DOMAIN runningScripts' :
                            runningScripts'[i] = runningScripts[i]
            /\ ("unregister" \in events[r]) => task'[r] = "done"]_vars
    /\ []<>(exited \/ \A r \in Requests :
                         "register" \in events[r] => "unregister" \in events[r])

\* C9 witness: cancel_all has already removed the entry of a job whose evaluator
\* is about to unregister, while another job's entry is in the registry
C9_NoOpRemovalPending ==
    \E r, q \in Requests :
        /\ task[r] = "sent" /\ r \notin Tracked
        /\ q \in Tracked

\* C10: every accepted job is served: until its ScriptResult is on its reply
\* channel the job is in the queue or held by exactly one worker, the reply
\* channel gets a result only together with being closed, and a result the
\* evaluator wrote to the executor's channel has its executor waiting to drain it.
C10_AcceptedJobServed ==
    /\ \A r \in Requests :
          (hpc[r] = "wait" /\ ~replyChan[r].closed)
              => Cardinality({i \in DOMAIN jobQueue : jobQueue[i] = r})
                   + Cardinality({w \in Workers : wjob[w] = r}) = 1
    /\ \A r \in Requests : Len(replyChan[r].buf) <= 1
    /\ \A r \in Requests :
          resultChan[r] # <<>>
              => /\ Len(resultChan[r]) = 1
                 /\ \E w \in Workers : wjob[w] = r /\ wpc[w] \in {"select", "drain"}

\* C11: the gate goes from closed to open only in the step that ends the
\* monitor's settling sleep (resetMemoryUsage), which also clears overLimitStart;
\* that sleep is entered only from the monitor's loop on a sample at or under
\* the limit while overLimitStart is set by an earlier overage, and entering it
\* leaves the gate as it is.
C11_GateOpensOnlyAfterSettling ==
    /\ [][(~acceptingScript /\ acceptingScript')
            => /\ wdpc = "reset" /\ wdpc' = "sleep"
               /\ overLimitStart # 0 /\ overLimitStart' = 0]_vars
    /\ [][(wdpc # "reset" /\ wdpc' = "reset")
            => /\ wdpc = "sleep"
               /\ overLimitStart # 0
               /\ ~acceptingScript /\ ~acceptingScript']_vars

\* C11 witness: the gate is open again after a request was refused while it was
\* closed
C11_GateReopened ==
    /\ acceptingScript
    /\ overLimitStart = 0
    /\ \E r \in Requests : resp[r].error = MsgNotAccepting

\* C12: a handler inside ExecuteScriptWithTimeout can always take its step, and
\* that step, for a script within the size limit, either finds the queue full
\* and returns no_worker_available with the queue and the registry unchanged, or
\* appends exactly this one job to the queue.
C12_SubmitNeverBlocks ==
    /\ [](\A r \in Requests : (hpc[r] = "submit" /\ ~exited) => ENABLED Submit(r))
    /\ [][\A r \in Requests :
            (hpc[r] = "submit" /\ hpc'[r] # "submit" /\ js[r].len <= MaxScriptSize)
               => IF Len(jobQueue) = WorkerPoolSize
                  THEN /\ hpc'[r] = "done"
                       /\ resp'[r].error = ErrNoWorkerAvailable
                       /\ jobQueue' = jobQueue
                       /\ runningScripts' = runningScripts
                  ELSE /\ hpc'[r] = "wait"
                       /\ jobQueue' = Append(jobQueue, r)
                       /\ runningScripts' = runningScripts]_vars

\* C12 witness: a submitter was turned away and the queue, still full, holds
\* only the jobs of other submitters
C12_TurnedAwayAtFullQueue ==
    \E r \in Requests :
        /\ resp[r].error = ErrNoWorkerAvailable
        /\ Len(jobQueue) = WorkerPoolSize
        /\ r \notin {jobQueue[i] : i \in DOMAIN jobQueue}

\* workers inside executeScript, between taking a workerSem token (line 131) and
\* giving it back (line 135)
Executing ==
    {w \in Workers : wpc[w] \in {"build", "lock", "spawn", "select", "drain", "release"}}

\* worker w drains the queue: it is not waiting at line 131 for a token that no
\* worker inside executeScript is there to give back
Draining(w) == wpc[w] = "exec" => (workerSem < SemCap \/ Executing # {})

\* C13: whatever workers have crashed, worker_pool_size workers drain the job
\* queue: each worker of the pool (a replacement included) is receiving from the
\* queue, executing a job, or waiting for a token that an executing worker
\* gives back; and no panic raised in the executor's background task is left
\* uncaught.
C13_PoolSizeRestored ==
    /\ Cardinality({w \in Workers : Draining(w)}) = WorkerPoolSize
    /\ ~crashing

\* C14: every request the handler has finished has one response, whose body is
\* JSON and whose Content-Type, as sent with the status line, is
\* application/json, whatever the outcome.
C14_JsonResponse ==
    \A r \in Requests :
        hpc[r] = "done"
            => /\ resp[r] # NoResponse
               /\ resp[r].json
               /\ resp[r].ctype = AppJson

\* what ExecuteScriptWithTimeout is about to return to the handler of r: the
\* error of the size check or of the full queue, or the Error of the result on
\* the job's reply channel ("nil": a value came back)
ExecOutcome(r) ==
    IF hpc[r] = "wait" THEN Head(replyChan[r].buf).Error
    ELSE IF js[r].len > MaxScriptSize THEN ErrScriptTooLarge
    ELSE ErrNoWorkerAvailable

\* C15: when ExecuteScriptWithTimeout returns to the handler, the status written
\* is 200 exactly for a value, 400 exactly for script_too_large, 503 exactly for
\* no_worker_available and 500 for every other error; a non-POST request is
\* answered 405 in the handler's first step, with the queue untouched.
C15_StatusFollowsOutcome ==
    [][\A r \in Requests :
         /\ (hpc[r] \in {"submit", "wait"} /\ hpc'[r] = "done")
               => /\ resp'[r].status = StatusOK <=> ExecOutcome(r) = "nil"
                  /\ resp'[r].status = StatusBadRequest
                        <=> ExecOutcome(r) = ErrScriptTooLarge
                  /\ resp'[r].status = StatusServiceUnavailable
                        <=> ExecOutcome(r) = ErrNoWorkerAvailable
                  /\ resp'[r].status = StatusInternalServerError
                        <=> ExecOutcome(r) \notin
                              {"nil", ErrScriptTooLarge, ErrNoWorkerAvailable}
         /\ (hpc[r] = "new" /\ resp'[r].error = MsgOnlyPost)
               => /\ resp'[r].status = StatusMethodNotAllowed
                  /\ hpc'[r] = "done"
                  /\ jobQueue' = jobQueue]_vars

\* C15 witness: one request was answered 503 for the full queue and another
\* 500 for a script that failed
C15_RejectedAndFailed ==
    \E r, q \in Requests :
        /\ resp[r].status = StatusServiceUnavailable
        /\ resp[r].error = ErrNoWorkerAvailable
        /\ resp[q].status = StatusInternalServerError
        /\ resp[q].error = FailedResult(JsException).Error

\* C16: while a script is being evaluated, every name of the restricted-globals
\* list evaluates to null or undefined on the job's VM.
C16_RestrictedNamesStripped ==
    \A r \in Requests :
        task[r] = "running"
            => /\ vmGlobal[r] # NoVm
               /\ \A i \in DOMAIN restrictedGlobals :
                     Evaluate(vmGlobal[r], restrictedGlobals[i]) \in {"null", "undefined"}

\* C17: when server.Shutdown returns, with an error or without, the shutdown
\* goes on towards the end of the process: the signal-driven shutdown on to
\* cancelAllScripts and the pause before main returns, the self-restart on to
\* stopping the manager, spawning the replacement and os.Exit.
C17_ShutdownErrorDoesNotPreventExit ==
    [][/\ (sdpc = "shutdown" /\ sdpc' # "shutdown") => sdpc' = "pause"
       /\ (wdpc = "shutdown" /\ wdpc' # "shutdown") => wdpc' = "exec"]_vars

\* C18: in one step under the lock, cancelAllScripts interrupts the VM of every
\* entry it finds (the value is pending unless that run is already over), fires
\* the cancelFunc of the context of every such job, and leaves the registry
\* empty; it does not wait for the evaluators: their tasks and result channels
\* are as they were.
C18_CancelAllEmptiesRegistry ==
    [][CancelAllStep
         => /\ \A r \in Tracked :
                  /\ task[r] \notin {"sent", "panic", "done"}
                        => interruptVal'[r] = ReasonCancelled
                  /\ \A w \in Workers : wjob[w] = r => ctxCancelled'[w]
            /\ runningScripts' = <<>>
            /\ task' = task
            /\ resultChan' = resultChan
            /\ wpc' = wpc]_vars

\* C18 witness: cancelAllScripts has returned with the registry empty while the
\* evaluator it interrupted is still running
C18_CancelledStillRunning ==
    \E r \in Requests, w \in Workers :
        /\ task[r] = "running"
        /\ interruptVal[r] = ReasonCancelled
        /\ wjob[w] = r /\ ctxCancelled[w]
        /\ runningScripts = <<>>

\* C19: the monitor can always take a tick with a sample over the limit.  Such
\* a tick first closes the gate, and the gate stays closed to the end of the
\* tick; if the gate was open when the tick began, cancelAllScripts is called
\* next, in the same tick, can always run, and empties the registry and
\* interrupts the VMs of the entries it held; the tick ends with overLimitStart
\* set (it keeps the value it had if it was set).
C19_OverLimitTick ==
    /\ []((wdpc = "sleep" /\ ~exited) => ENABLED WdOver)
    /\ []((wdpc = "cancel" /\ ~exited) => ENABLED WdCancel)
    /\ [](wdpc \in {"cancel", "enforce"} => ~acceptingScript)
    /\ [][WdOver
            => /\ ~acceptingScript'
               /\ wdpc' = IF acceptingScript THEN "cancel" ELSE "enforce"
               /\ runningScripts' = runningScripts]_vars
    /\ [][(wdpc = "cancel" /\ wdpc' # "cancel")
            => /\ wdpc' = "enforce"
               /\ runningScripts' = <<>>
               /\ \A r \in Tracked :
                     /\ task[r] \notin {"sent", "panic", "done"}
                           => interruptVal'[r] = ReasonCancelled
                     /\ \A w \in Workers : wjob[w] = r => ctxCancelled'[w]]_vars
    /\ [][(wdpc # "enforce" /\ wdpc' = "enforce") => wdpc \in {"sleep", "cancel"}]_vars
    /\ [][(wdpc = "enforce" /\ wdpc' # "enforce")
            => /\ ~acceptingScript'
               /\ overLimitStart' # 0
               /\ overLimitStart # 0 => overLimitStart' = overLimitStart]_vars

\* C19 witness: a tick over the limit found the gate open and a script
\* registered: the gate is closed, overLimitStart holds the first reading, the
\* registry is empty and the script's worker has its context cancelled
C19_GateClosedAndCancelled ==
    /\ ~acceptingScript
    /\ overLimitStart = Epoch
    /\ wdpc = "sleep"
    /\ runningScripts = <<>>
    /\ \E w \in Workers : wpc[w] = "select" /\ ctxCancelled[w]

\* C20: in a tick over the limit restart is called exactly when overLimitStart
\* is set (by an earlier tick) and the clock reads more than 60 s past it;
\* restart is called in no other step, and that tick leaves overLimitStart as
\* it is; a sample at or under the limit with overLimitStart set leads to the
\* reset that clears it.
C20_RestartAfterSixtySeconds ==
    /\ [](\A t \in Times(overLimitStart) :
            (wdpc = "enforce" /\ ~exited)
               => ((ENABLED (WdEnforce(t) /\ wdpc' = "shutdown"))
                     <=> (overLimitStart # 0 /\ t - overLimitStart > 60)))
    /\ [][(wdpc # "shutdown" /\ wdpc' = "shutdown")
            => /\ wdpc = "enforce"
               /\ overLimitStart # 0
               /\ overLimitStart' = overLimitStart]_vars
    /\ [][WdUnder => (overLimitStart # 0 /\ wdpc' = "reset")]_vars
    /\ [][(wdpc = "reset" /\ wdpc' # "reset") => overLimitStart' = 0]_vars

\* C20 witness: restart has been called, more than 60 s into an overage, and
\* its server.Shutdown is in progress
C20_RestartCalled ==
    /\ wdpc = "shutdown"
    /\ overLimitStart # 0
    /\ ~serving
    /\ ~exited

\* the step in which the Go runtime ends the process after the panic of an
\* evaluator goroutine (executeScript line 234, no recover) has unwound
EvaluatorCrashStep == crashing /\ ~exited /\ exited' /\ UNCHANGED <<sdpc, wdpc>>

\* C21: apart from the crash of an evaluator goroutine, which is neither a
\* graceful shutdown nor a restart, the process ends only from the pause of the
\* signal-driven shutdown or from restart's spawn; either position is entered
\* only from a server.Shutdown that was called before (the listener is closed)
\* and only by a step in which cancelAllScripts empties the registry; the pause
\* lies between that step and the end of the process.  So no exit skips cancel_all, and the order is
\* Shutdown, cancel_all, (pause,) exit.
C21_ShutdownOrder ==
    /\ [][(~exited /\ exited' /\ ~EvaluatorCrashStep)
            => (sdpc = "pause" \/ wdpc = "exec")]_vars
    /\ [][(sdpc # "pause" /\ sdpc' = "pause")
            => /\ sdpc = "shutdown" /\ ~serving
               /\ runningScripts' = <<>>
               /\ \A w \in Workers : wjob[w] \in Tracked => ctxCancelled'[w]
               /\ ~exited']_vars
    /\ [][(wdpc # "exec" /\ wdpc' = "exec")
            => /\ wdpc = "shutdown" /\ ~serving
               /\ runningScripts' = <<>>
               /\ \A w \in Workers : wjob[w] \in Tracked => ctxCancelled'[w]
               /\ ~exited']_vars
    /\ [][(sdpc # "shutdown" /\ sdpc' = "shutdown") => (sdpc = "wait" /\ ~serving')]_vars
    /\ [][(wdpc # "shutdown" /\ wdpc' = "shutdown") => (wdpc = "enforce" /\ ~serving')]_vars

\* C21 witness: the process has ended after a signal, and the script that
\* cancelAllScripts interrupted on the way was still being evaluated
C21_ExitedAfterCancel ==
    /\ exited
    /\ sdpc = "pause"
    /\ \E r \in Requests : task[r] = "running" /\ interruptVal[r] = ReasonCancelled
    /\ ~crashing

\* registry entries whose evaluator has not yet sent its result
PendingEntries == {r \in Tracked : task[r] \in {"none", "running"}}

\* C22 (amended): the registry entries whose evaluator has not yet sent its
\* result never exceed worker_pool_size, each belonging to a different worker
\* that is inside executeScript for that job; an entry whose evaluator has sent
\* its result and not yet unregistered stays beside the entry of the job its
\* worker picked up next, so the registry as a whole is bounded only by these
\* entries plus the evaluators still to unregister.
C22_PendingEntriesBounded ==
    /\ Cardinality(PendingEntries) <= WorkerPoolSize
    /\ \A r \in PendingEntries :
          \E w \in Workers : wjob[w] = r /\ wpc[w] \in {"spawn", "select", "drain"}
    /\ Cardinality(DOMAIN runningScripts)
          <= Cardinality(PendingEntries)
               + Cardinality({r \in Requests : task[r] \in {"sent", "panic"}})

\* C22 witness: the worker has registered its next job while the entry of the
\* previous one, whose evaluator has sent its result, is still in the registry
C22_TwoEntriesOneWorker ==
    \E r, q \in Requests :
        /\ r \in Tracked /\ task[r] = "sent"
        /\ q \in PendingEntries
        /\ \E w \in Workers : wjob[w] = q

\* C22 (as stated): the registry never holds more than worker_pool_size entries.
C22_RegistryBounded == Cardinality(DOMAIN runningScripts) <= WorkerPoolSize

\* C23 (amended): a handler goes on to ExecuteScriptWithTimeout only if it read
\* the gate open; a request handled while the gate is closed is answered at
\* once with the queue and the registry untouched.  A handler that read the
\* gate open before it closed still enqueues its job, and the workers go on
\* receiving and registering queued jobs while the gate is closed.
C23_GateCheckedAtArrival ==
    [][\A r \in Requests :
         /\ (hpc[r] # "submit" /\ hpc'[r] = "submit")
               => (hpc[r] = "read" /\ acceptingScript)
         /\ (hpc[r] = "read" /\ hpc'[r] # "read" /\ ~acceptingScript)
               => /\ hpc'[r] = "done"
                  /\ jobQueue' = jobQueue
                  /\ runningScripts' = runningScripts]_vars

\* C23 witness: the gate is closed and a script registered after cancel_all is
\* being evaluated, with no interrupt pending and its context not cancelled
C23_EvaluatingWhileClosed ==
    /\ ~acceptingScript
    /\ \E r \in Tracked, w \in Workers :
          /\ task[r] = "running"
          /\ interruptVal[r] = NoInterrupt
          /\ wjob[w] = r /\ ~ctxCancelled[w]

\* C23 (as stated): in a step taken while the gate is closed no job is enqueued
\* and no script is registered.
C23_NothingStartsWhileClosed ==
    [][~acceptingScript
         => /\ Len(jobQueue') <= Len(jobQueue)
            /\ DOMAIN runningScripts' \subseteq DOMAIN runningScripts]_vars

\* C24: no accepted job is left without anyone to reply to it: a handler blocked
\* on its job's reply channel has the job in the queue or held by a worker
\* (a replacement included), or the reply is already on the channel.
C24_WaitingJobHasReplier ==
    \A r \in Requests :
        hpc[r] = "wait"
            => \/ \E i \in DOMAIN jobQueue : jobQueue[i] = r
               \/ \E w \in Workers : wjob[w] = r
               \/ replyChan[r].buf # <<>>
               \/ replyChan[r].closed

\* C25: the tokens held in workerSem are as many as the workers between taking
\* a token and giving it back, so a worker that has received a job finds a free
\* token.
C25_TokensMatchExecuting ==
    /\ workerSem = Cardinality(Executing)
    /\ \A w \in Workers : wpc[w] = "exec" => workerSem < WorkerPoolSize

\* C26: whenever the monitor stands between two iterations of its loop, the
\* gate is closed exactly if overLimitStart is set.
C26_GateClosedIffOverLimit ==
    wdpc = "sleep" => (acceptingScript <=> overLimitStart = 0)

\* C26 witness: an iteration over the limit has ended in which restart was
\* called and came back: the monitor is between iterations with the gate closed
\* and overLimitStart set
C26_IterationEndedAfterRestart ==
    /\ wdpc = "sleep"
    /\ ~acceptingScript
    /\ overLimitStart # 0
    /\ ~serving
    /\ sdpc = "wait"
    /\ ~exited

====
